---- MODULE Spec2Model ----
(***************************************************************************)
(* Model of rustler's binary wrappers (rustler/src/types/binary.rs:        *)
(* OwnedBinary and Binary over the Erlang allocator) and of the decoder    *)
(* and encoder that rustler_codegen/src/map.rs generates for NifMap.       *)
(*                                                                         *)
(* One NIF call activation is modelled: a single thread of control that    *)
(* holds OwnedBinary values, a Binary value that lives for the call's Env, *)
(* and the heap of the foreign runtime.  A call of this layer is one step, *)
(* or two where another value is alive in between; a call that reports     *)
(* something leaves it in ret until the caller resumes.                    *)
(***************************************************************************)
EXTENDS Integers, Sequences, FiniteSets, Bags, TLC

(***************************************************************************)
(* Bounds                                                                  *)
(***************************************************************************)
MaxAllocs == 2      \* allocations the Erlang allocator grants to native code
MaxSize == 2        \* largest binary size requested
UsizeBits == 16     \* width of usize in the model

Bytes == {0, 1}

Min(a, b) == IF a <= b THEN a ELSE b

RECURSIVE Pow2(_)
Pow2(n) == IF n = 0 THEN 1 ELSE 2 * Pow2(n - 1)

UsizeMax == Pow2(UsizeBits) - 1

Sizes == 0..MaxSize

ByteSeqs(n) == [1..n -> Bytes]
AllByteSeqs == UNION {ByteSeqs(n) : n \in Sizes}

\* The arguments of the NIF: a binary and a list of bytes, with different
\* contents.
InputBinary == <<1, 0>>
iolist == <<0, 1>>

(***************************************************************************)
(* The heap.  An allocation is named by an id; the data pointer of an      *)
(* ErlNifBinary is modelled by the id of the allocation it points into     *)
(* (plus an offset for sub-binaries).                                      *)
(***************************************************************************)
RtBin == 0                   \* storage of the binary term passed to the NIF
NativeIds == 1..MaxAllocs    \* allocations made through alloc()
RtFlat == MaxAllocs + 1      \* buffer the runtime flattens the iolist into
AllocIds == RtBin..RtFlat
NoAlloc == -1

\* ErlNifBinary {size, data} held by an OwnedBinary; NoOwned: no value.
NoOwned == [data |-> NoAlloc, size |-> 0]
\* Value inside / outside a ManuallyDrop wrapper.
NoLocal == [data |-> NoAlloc, size |-> 0, armed |-> FALSE]

\* Terms of the foreign runtime.
BinTerm(a, off, size) == [kind |-> "bin", data |-> a, off |-> off, size |-> size]
ListTerm == [kind |-> "list", data |-> NoAlloc, off |-> 0, size |-> 0]
AtomTerm == [kind |-> "atom", data |-> NoAlloc, off |-> 0, size |-> 0]
NoTerm == [kind |-> "none", data |-> NoAlloc, off |-> 0, size |-> 0]

VARIABLES
    allocState,  \* per allocation: "unalloc", "native", "runtime", "freed"
    mem,         \* per allocation: its bytes
    relCount,    \* per allocation: calls of enif_release_binary by native code
    xferCount,   \* per allocation: calls of enif_make_binary
    sent,        \* per allocation: the bytes it held when it was transferred
    nextAlloc,   \* next id the allocator hands out
    owned,       \* bag of the OwnedBinary values the caller holds
    bin,         \* the Binary variable of the NIF (or NoBinary)
    pc,          \* position of the thread: "idle", inside from_owned
                 \* ("fo_make") or realloc_or_copy ("roc_drop"), or
                 \* "returned" from a call
    self,        \* realloc_or_copy: the OwnedBinary it was called on
    reqSize,     \* realloc_or_copy: its size argument
    before,      \* realloc_or_copy: the bytes of self when it was called
    md,          \* from_owned: the ManuallyDrop-wrapped `owned`
    newb,        \* realloc_or_copy: the local `new`
    ret,         \* what the call that has just returned reported
    codec        \* the last call of a generated decoder and its result

binvars == <<allocState, mem, relCount, xferCount, sent, nextAlloc,
             owned, bin, pc, self, reqSize, before, md, newb, ret>>

heapvars == <<allocState, mem, relCount, xferCount, sent, nextAlloc>>
localvars == <<self, reqSize, before, md, newb>>

(***************************************************************************)
(* The OwnedBinary values of the caller                                    *)
(***************************************************************************)
Live == BagToSet(owned)
Holding(d) == SetToBag({d})
Replaced(d, e) == (owned (-) Holding(d)) (+) Holding(e)

(***************************************************************************)
(* Views                                                                   *)
(***************************************************************************)
\* from_raw_parts(data, size) read from allocation a at offset off; memory
\* that is not there reads as nothing.
Read(bytes, off, size) ==
    IF off + size <= Len(bytes) THEN SubSeq(bytes, off + 1, off + size)
                                ELSE <<>>

RawParts(a, off, size) ==
    IF a \in AllocIds THEN Read(mem[a], off, size) ELSE <<>>

\* OwnedBinary::as_slice: from_raw_parts(self.0.data, self.0.size)
as_slice(b) == RawParts(b.data, 0, b.size)

\* Binary::as_slice: from_raw_parts(self.inner.data, self.inner.size)
BinBytes(b) == RawParts(b.data, b.off, b.size)

\* struct Binary { inner: ErlNifBinary, term: Term }
MkBinary(a, off, size, t) == [data |-> a, off |-> off, size |-> size, term |-> t]
NoBinary == MkBinary(NoAlloc, 0, 0, NoTerm)

\* The terms native code can name: the NIF's arguments and Binary::to_term.
InputBinTerm == BinTerm(RtBin, 0, Len(mem[RtBin]))
TermsInScope ==
    {InputBinTerm, ListTerm, AtomTerm}
    \cup (IF bin # NoBinary THEN {bin.term} ELSE {})

(***************************************************************************)
(* The allocator shim and the entry points of the foreign runtime          *)
(***************************************************************************)
\* wrapper::binary::alloc: a fresh allocation with unspecified contents,
\* or failure.  The set of outcomes of one call.
alloc(size) ==
    {[ok |-> FALSE, id |-> NoAlloc, bytes |-> <<>>]}
    \cup (IF nextAlloc <= MaxAllocs
          THEN {[ok |-> TRUE, id |-> nextAlloc, bytes |-> init] :
                    init \in ByteSeqs(size)}
          ELSE {})

\* Contents after an in-place resize: the common prefix is kept, the tail
\* of a grown binary is unspecified.
Resize(bytes, size, tail) ==
    IF size <= Len(bytes) THEN SubSeq(bytes, 1, size) ELSE bytes \o tail

\* wrapper::binary::realloc: on success the descriptor has the new size; on
\* failure descriptor and contents are untouched.
wrapper_realloc(b, size) ==
    {[ok |-> FALSE, desc |-> b, bytes |-> mem[b.data]]}
    \cup {[ok |-> TRUE, desc |-> [b EXCEPT !.size = size],
           bytes |-> Resize(mem[b.data], size, tail)] :
              tail \in ByteSeqs(IF size > b.size THEN size - b.size ELSE 0)}

\* The part of the heap that releasing and collecting change.
Heap == [st |-> allocState, mem |-> mem, rel |-> relCount, sent |-> sent]

SetHeap(h) ==
    /\ allocState' = h.st
    /\ mem' = h.mem
    /\ relCount' = h.rel
    /\ sent' = h.sent

\* The heap after native code has released allocation a: the memory is back
\* with the allocator.
Released(h, a) ==
    [h EXCEPT !.st[a] = "freed", !.mem[a] = <<>>, !.rel[a] = @ + 1]

\* enif_release_binary called by native code on allocation a.
enif_release_binary(a) == SetHeap(Released(Heap, a))

\* The runtime's collector: memory of the runtime that no term native code
\* holds refers to can no longer be read and is reclaimed.  b is the Binary
\* variable after the step; the NIF's binary argument stays alive.
Collected(h, b) ==
    LET gone(a) == /\ a # RtBin
                   /\ h.st[a] = "runtime"
                   /\ b.data # a
    IN  [h EXCEPT !.st = [a \in AllocIds |->
                             IF a = RtFlat /\ gone(a) THEN "unalloc" ELSE h.st[a]],
                  !.mem = [a \in AllocIds |-> IF gone(a) THEN <<>> ELSE h.mem[a]],
                  !.sent = [a \in AllocIds |-> IF gone(a) THEN <<>> ELSE h.sent[a]]]

\* enif_make_binary: the runtime takes the allocation over and returns the
\* term that denotes it.
enif_make_binary(b) == BinTerm(b.data, 0, b.size)

\* enif_inspect_binary: succeeds exactly on binary terms.
enif_inspect_binary(t) ==
    IF t.kind = "bin"
    THEN [ok |-> TRUE, data |-> t.data, off |-> t.off, size |-> t.size]
    ELSE [ok |-> FALSE, data |-> NoAlloc, off |-> 0, size |-> 0]

\* enif_inspect_iolist_as_binary: binaries as above; a list of bytes is
\* flattened by the runtime into a buffer of its own.
enif_inspect_iolist_as_binary(t) ==
    CASE t.kind = "bin" -> enif_inspect_binary(t)
      [] t.kind = "list" ->
            [ok |-> TRUE, data |-> RtFlat, off |-> 0, size |-> Len(iolist)]
      [] OTHER -> [ok |-> FALSE, data |-> NoAlloc, off |-> 0, size |-> 0]

\* enif_make_sub_binary requires a binary term and a range inside it.
\* Called on anything else its behaviour is undefined: it may yield a term
\* that is no binary, or a binary over unrelated memory of the runtime
\* (the storage of the NIF's binary argument stands for that memory).
enif_make_sub_binary(t, offset, length) ==
    IF t.kind = "bin" /\ offset + length <= t.size
    THEN {BinTerm(t.data, t.off + offset, length)}
    ELSE {AtomTerm}
         \cup {BinTerm(RtBin, v[1], v[2]) :
                 v \in {w \in Sizes \X Sizes : w[1] + w[2] <= Len(mem[RtBin])}}

(***************************************************************************)
(* OwnedBinary                                                             *)
(***************************************************************************)
Idle == pc = "idle"

\* What a call that returns () reports.
Unit == [op |-> "none"]

\* A realloc that stores the requested size whatever the shim answered.
realloc_sets_size(b, size) ==
    {[r EXCEPT !.desc = [b EXCEPT !.size = size]] : r \in wrapper_realloc(b, size)}

\* OwnedBinary::realloc delegates to the shim on its own descriptor.
OwnedBinary_realloc(b, size) == wrapper_realloc(b, size)

\* A new that asks the allocator a second time when the first request
\* fails; r is the answer it ends with.
new_retrying(size) ==
    /\ UNCHANGED codec
    /\ Idle
    /\ \E r \in alloc(size) :
         /\ ret' = [op |-> "new", ok |-> r.ok, asked |-> IF r.ok THEN 1 ELSE 2]
         /\ IF r.ok
            THEN /\ allocState' = [allocState EXCEPT ![r.id] = "native"]
                 /\ mem' = [mem EXCEPT ![r.id] = r.bytes]
                 /\ nextAlloc' = nextAlloc + 1
                 /\ owned' = owned (+) Holding([data |-> r.id, size |-> size])
            ELSE UNCHANGED <<allocState, mem, nextAlloc, owned>>
    /\ pc' = "returned"
    /\ UNCHANGED <<relCount, xferCount, sent, bin>>
    /\ UNCHANGED localvars

\* OwnedBinary::new(size); the caller keeps the value it gets.
new(size) ==
    /\ UNCHANGED codec
    /\ Idle
    /\ \E r \in alloc(size) :
         /\ ret' = [op |-> "new", ok |-> r.ok, asked |-> 1]
         /\ IF r.ok
            THEN /\ allocState' = [allocState EXCEPT ![r.id] = "native"]
                 /\ mem' = [mem EXCEPT ![r.id] = r.bytes]
                 /\ nextAlloc' = nextAlloc + 1
                 /\ owned' = owned (+) Holding([data |-> r.id, size |-> size])
            ELSE UNCHANGED <<allocState, mem, nextAlloc, owned>>
    /\ pc' = "returned"
    /\ UNCHANGED <<relCount, xferCount, sent, bin>>
    /\ UNCHANGED localvars

\* A copy that is left out: dst keeps what the allocator put there.
copy_skipped(dst, src) == dst

\* <[u8]>::copy_from_slice(src): dst, of the same length, becomes src.
copy_from_slice(dst, src) == src

\* A to_owned that hands out an OwnedBinary over the Binary's own memory
\* instead of a copy.
to_owned_aliasing ==
    /\ UNCHANGED codec
    /\ Idle
    /\ bin # NoBinary
    /\ ret' = [op |-> "to_owned", ok |-> TRUE, asked |-> 0]
    /\ owned' = owned (+) Holding([data |-> bin.data, size |-> bin.size])
    /\ pc' = "returned"
    /\ UNCHANGED heapvars
    /\ UNCHANGED bin
    /\ UNCHANGED localvars

\* OwnedBinary::from_unowned(src) / Binary::to_owned: new(src.len()), then
\* copy_from_slice(src) into the whole new buffer.
to_owned ==
    /\ UNCHANGED codec
    /\ Idle
    /\ bin # NoBinary
    /\ \E r \in alloc(bin.size) :
         /\ ret' = [op |-> "to_owned", ok |-> r.ok, asked |-> 1]
         /\ IF r.ok
            THEN /\ allocState' = [allocState EXCEPT ![r.id] = "native"]
                 /\ mem' = [mem EXCEPT ![r.id] = copy_from_slice(r.bytes, BinBytes(bin))]
                 /\ nextAlloc' = nextAlloc + 1
                 /\ owned' = owned (+) Holding([data |-> r.id, size |-> bin.size])
            ELSE UNCHANGED <<allocState, mem, nextAlloc, owned>>
    /\ pc' = "returned"
    /\ UNCHANGED <<relCount, xferCount, sent, bin>>
    /\ UNCHANGED localvars

\* OwnedBinary::realloc(size) on the value d
realloc(d, size) ==
    /\ UNCHANGED codec
    /\ Idle
    /\ BagIn(d, owned)
    /\ \E r \in OwnedBinary_realloc(d, size) :
         /\ owned' = Replaced(d, r.desc)
         /\ mem' = [mem EXCEPT ![d.data] = r.bytes]
         /\ ret' = [op |-> "realloc", ok |-> r.ok]
    /\ pc' = "returned"
    /\ UNCHANGED <<allocState, relCount, xferCount, sent, nextAlloc, bin>>
    /\ UNCHANGED localvars

\* Writing one byte through OwnedBinary::as_mut_slice.
as_mut_slice(d, i, v) ==
    /\ UNCHANGED codec
    /\ Idle
    /\ BagIn(d, owned)
    /\ i \in 1..d.size
    /\ mem[d.data][i] # v
    /\ mem' = [mem EXCEPT ![d.data][i] = v]
    /\ ret' = Unit
    /\ UNCHANGED <<allocState, relCount, xferCount, sent, nextAlloc, owned,
                   bin, pc>>
    /\ UNCHANGED localvars

\* A destructor that does not call enif_release_binary.
drop_without_release(d) ==
    /\ UNCHANGED codec
    /\ Idle
    /\ BagIn(d, owned)
    /\ owned' = owned (-) Holding(d)
    /\ ret' = Unit
    /\ UNCHANGED heapvars
    /\ UNCHANGED <<bin, pc>>
    /\ UNCHANGED localvars

\* impl Drop for OwnedBinary: the value d goes out of scope.
drop(d) ==
    /\ UNCHANGED codec
    /\ Idle
    /\ BagIn(d, owned)
    /\ enif_release_binary(d.data)
    /\ owned' = owned (-) Holding(d)
    /\ ret' = Unit
    /\ UNCHANGED <<xferCount, nextAlloc, bin, pc>>
    /\ UNCHANGED localvars

(***************************************************************************)
(* OwnedBinary::realloc_or_copy, in two steps                              *)
(***************************************************************************)
\* <&mut [u8] as io::Write>::write(src): copies as much of src as fits into
\* the front of dst and reports the number of bytes copied.
SliceWrite(dst, src) ==
    LET n == Min(Len(dst), Len(src))
    IN  [ok |-> TRUE, n |-> n,
         buf |-> SubSeq(src, 1, n) \o SubSeq(dst, n + 1, Len(dst))]

\* The check with && in place of ||.
CopyCheckFails_and(num_written, selfLen, newLen) ==
    ~(num_written = selfLen /\ num_written = newLen)

\* !(num_written == self.len() || num_written == new.len())
CopyCheckFails(num_written, selfLen, newLen) ==
    ~(num_written = selfLen \/ num_written = newLen)

\* An assignment self.0 = new.0 in place of the swap.
swap_assign(a, b) == [first |-> b, second |-> b]

\* The swap left out.
swap_omitted(a, b) == [first |-> a, second |-> b]

\* mem::swap(&mut self.0, &mut new.0)
swap(a, b) == [first |-> b, second |-> a]

\* What realloc_or_copy reports: the way it took, whether it panicked,
\* whether self.realloc succeeded, and how often it asked for a new buffer.
RocRet(path, panic, realloc_ok, asked) ==
    [op |-> "realloc_or_copy", path |-> path, panic |-> panic,
     realloc_ok |-> realloc_ok, asked |-> asked]

\* realloc_or_copy(size) on the value d, up to the swap:
\*   if !self.realloc(size) {
\*       let mut new = OwnedBinary::new(size).unwrap();
\*       if let Ok(num_written) = new.as_mut_slice().write(self.as_slice()) {
\*           if !(num_written == self.len() || num_written == new.len()) {
\*               panic!("Could not copy binary"); }
\*           ::std::mem::swap(&mut self.0, &mut new.0);
\*       } else { panic!("Could not copy binary"); } }
\* A panic unwinds through `new`, whose destructor releases it.
realloc_or_copy(d, size) ==
    /\ UNCHANGED codec
    /\ Idle
    /\ BagIn(d, owned)
    /\ \E r \in OwnedBinary_realloc(d, size) :
         IF r.ok
         THEN /\ owned' = Replaced(d, r.desc)
              /\ mem' = [mem EXCEPT ![d.data] = r.bytes]
              /\ ret' = RocRet("inplace", FALSE, TRUE, 0)
              /\ pc' = "returned"
              /\ UNCHANGED <<allocState, relCount, sent, nextAlloc, self,
                             reqSize, before, newb>>
         ELSE \E n \in alloc(size) :
                IF ~n.ok
                THEN /\ owned' = Replaced(d, r.desc)
                     /\ mem' = [mem EXCEPT ![d.data] = r.bytes]
                     /\ ret' = RocRet("unwrap", TRUE, FALSE, 1)
                     /\ pc' = "returned"
                     /\ UNCHANGED <<allocState, relCount, sent, nextAlloc,
                                    self, reqSize, before, newb>>
                ELSE LET nb == [data |-> n.id, size |-> size]
                         w == SliceWrite(n.bytes, Read(r.bytes, 0, r.desc.size))
                         sw == swap(r.desc, nb)
                     IN  IF ~w.ok \/ CopyCheckFails(w.n, r.desc.size, nb.size)
                         THEN /\ owned' = Replaced(d, r.desc)
                              /\ SetHeap(Released(
                                    [Heap EXCEPT !.st[n.id] = "native",
                                                 !.mem[d.data] = r.bytes], n.id))
                              /\ nextAlloc' = nextAlloc + 1
                              /\ ret' = RocRet("copy_panic", TRUE, FALSE, 1)
                              /\ pc' = "returned"
                              /\ UNCHANGED <<self, reqSize, before, newb>>
                         ELSE /\ owned' = Replaced(d, sw.first)
                              /\ allocState' = [allocState EXCEPT ![n.id] = "native"]
                              /\ nextAlloc' = nextAlloc + 1
                              /\ mem' = [mem EXCEPT ![d.data] = r.bytes,
                                                    ![n.id] = w.buf]
                              /\ self' = sw.first
                              /\ newb' = [data |-> sw.second.data,
                                          size |-> sw.second.size, armed |-> TRUE]
                              /\ reqSize' = size
                              /\ before' = as_slice(d)
                              /\ ret' = RocRet("running", FALSE, FALSE, 1)
                              /\ pc' = "roc_drop"
                              /\ UNCHANGED <<relCount, sent>>
    /\ UNCHANGED <<xferCount, bin, md>>

\* The end of the block: `new`, which now holds the old allocation, goes
\* out of scope.
roc_drop ==
    /\ UNCHANGED codec
    /\ pc = "roc_drop"
    /\ enif_release_binary(newb.data)
    /\ newb' = NoLocal
    /\ pc' = "returned"
    /\ ret' = [ret EXCEPT !.path = "copy"]
    /\ UNCHANGED <<xferCount, nextAlloc, owned, bin, md, self, reqSize, before>>

(***************************************************************************)
(* Binary::from_owned, in two steps                                        *)
(***************************************************************************)
\* A plain move of `owned` into the local: its destructor stays armed.
plain_move(b) == [data |-> b.data, size |-> b.size, armed |-> TRUE]

\* std::mem::ManuallyDrop::new(owned): the value moves into a wrapper whose
\* destructor does not run.
ManuallyDrop_new(b) == [data |-> b.data, size |-> b.size, armed |-> FALSE]

\* let mut owned = ManuallyDrop::new(owned);
from_owned(d) ==
    /\ UNCHANGED codec
    /\ Idle
    /\ BagIn(d, owned)
    /\ md' = ManuallyDrop_new(d)
    /\ owned' = owned (-) Holding(d)
    /\ pc' = "fo_make"
    /\ ret' = Unit
    /\ UNCHANGED heapvars
    /\ UNCHANGED <<bin, self, reqSize, before, newb>>

\* enif_make_binary(env, &mut owned.0); Binary { inner: owned.0, term }.
\* At the end of the function `owned` goes out of scope, and is released
\* there if its destructor is still armed.
fo_make ==
    /\ UNCHANGED codec
    /\ pc = "fo_make"
    /\ LET term == enif_make_binary(md)
           b == MkBinary(md.data, 0, md.size, term)
           made == [Heap EXCEPT !.st[md.data] = "runtime",
                                !.sent[md.data] = as_slice(md)]
       IN  /\ bin' = b
           /\ xferCount' = [xferCount EXCEPT ![md.data] = @ + 1]
           /\ SetHeap(Collected(IF md.armed THEN Released(made, md.data)
                                            ELSE made, b))
    /\ md' = NoLocal
    /\ pc' = "idle"
    /\ UNCHANGED <<nextAlloc, owned, self, reqSize, before, newb, ret>>

(***************************************************************************)
(* Binary                                                                  *)
(***************************************************************************)
\* usize::wrapping_add, the unchecked addition
wrapping_add(a, b) == [some |-> TRUE, val |-> (a + b) % (UsizeMax + 1)]

\* usize::checked_add
checked_add(a, b) ==
    IF a + b > UsizeMax THEN [some |-> FALSE, val |-> 0]
                        ELSE [some |-> TRUE, val |-> a + b]

\* Arguments tried for offset and length.
ArgValues == Sizes \cup {UsizeMax}

\* A from_term that inspects the term as an iolist.
from_term_as_iolist(t) ==
    LET i == enif_inspect_iolist_as_binary(t)
    IN  IF i.ok
        THEN [ok |-> TRUE, err |-> "none", bin |-> MkBinary(i.data, i.off, i.size, t)]
        ELSE [ok |-> FALSE, err |-> "BadArg", bin |-> NoBinary]

\* Binary::from_term as a function of the term.
Binary_from_term(t) ==
    LET i == enif_inspect_binary(t)
    IN  IF i.ok
        THEN [ok |-> TRUE, err |-> "none", bin |-> MkBinary(i.data, i.off, i.size, t)]
        ELSE [ok |-> FALSE, err |-> "BadArg", bin |-> NoBinary]

\* Binary::from_iolist as a function of the term.
Binary_from_iolist(t) ==
    LET i == enif_inspect_iolist_as_binary(t)
    IN  IF i.ok
        THEN [ok |-> TRUE, err |-> "none", bin |-> MkBinary(i.data, i.off, i.size, t)]
        ELSE [ok |-> FALSE, err |-> "BadArg", bin |-> NoBinary]

\* impl Decoder for Binary: decode(term) is Binary::from_term(term).
Binary_decode(t) == Binary_from_term(t)

\* Term::into_binary(self) is Binary::from_term(self).
into_binary(t) == Binary_from_term(t)

\* The three ways native code turns a term into a Binary without copying.
EntryPoints == {"from_term", "decode", "into_binary"}

\* Binary::from_term(term), called directly or through Decoder::decode or
\* Term::into_binary.  An Ok result is assigned to the Binary variable.
from_term(t) ==
    /\ UNCHANGED codec
    /\ Idle
    /\ t \in TermsInScope
    /\ \E entry \in EntryPoints :
         LET r == CASE entry = "from_term" -> Binary_from_term(t)
                    [] entry = "decode" -> Binary_decode(t)
                    [] entry = "into_binary" -> into_binary(t)
             b == IF r.ok THEN r.bin ELSE bin
         IN  /\ bin' = b
             /\ SetHeap(Collected(Heap, b))
             /\ ret' = [op |-> "from_term", ok |-> r.ok, err |-> r.err]
    /\ pc' = "returned"
    /\ UNCHANGED <<xferCount, nextAlloc, owned>>
    /\ UNCHANGED localvars

\* Binary::from_iolist(term)
from_iolist(t) ==
    /\ UNCHANGED codec
    /\ Idle
    /\ t \in TermsInScope
    /\ LET r == Binary_from_iolist(t)
           b == IF r.ok THEN r.bin ELSE bin
           flat == IF t.kind = "list"
                   THEN [Heap EXCEPT !.st[RtFlat] = "runtime",
                                     !.mem[RtFlat] = iolist]
                   ELSE Heap
       IN  /\ bin' = b
           /\ SetHeap(Collected(flat, b))
           /\ ret' = [op |-> "from_iolist", ok |-> r.ok, err |-> r.err]
    /\ pc' = "returned"
    /\ UNCHANGED <<xferCount, nextAlloc, owned>>
    /\ UNCHANGED localvars

\* What make_subbinary reports: at is the statement it returned from,
\* called whether enif_make_sub_binary was called.
SubRet(ok, err, at, called, panic) ==
    [op |-> "make_subbinary", ok |-> ok, err |-> err, at |-> at,
     called |-> called, panic |-> panic]

\* Binary::make_subbinary(offset, length) on the Binary variable; the
\* result, if there is one, is assigned to the variable.
make_subbinary(offset, length) ==
    /\ UNCHANGED codec
    /\ Idle
    /\ bin # NoBinary
    /\ LET min_len == checked_add(length, offset)
       IN  IF ~min_len.some
           THEN /\ ret' = SubRet(FALSE, "BadArg", "overflow", FALSE, FALSE)
                /\ UNCHANGED <<bin, allocState, mem, relCount, sent>>
           ELSE IF min_len.val > bin.size
           THEN /\ ret' = SubRet(FALSE, "BadArg", "bounds", FALSE, FALSE)
                /\ UNCHANGED <<bin, allocState, mem, relCount, sent>>
           ELSE \E raw_term \in enif_make_sub_binary(bin.term, offset, length) :
                  LET r == Binary_from_term(raw_term)
                      b == IF r.ok THEN r.bin ELSE bin
                  IN  /\ bin' = b
                      /\ SetHeap(Collected(Heap, b))
                      /\ ret' = SubRet(r.ok, "none", "call", TRUE, ~r.ok)
    /\ pc' = "returned"
    /\ UNCHANGED <<xferCount, nextAlloc, owned>>
    /\ UNCHANGED localvars

\* A Binary is Copy and has no destructor: a value that is no longer used
\* simply disappears.
forget ==
    /\ UNCHANGED codec
    /\ Idle
    /\ bin # NoBinary
    /\ bin' = NoBinary
    /\ SetHeap(Collected(Heap, NoBinary))
    /\ ret' = Unit
    /\ UNCHANGED <<xferCount, nextAlloc, owned, pc>>
    /\ UNCHANGED localvars

\* The call is over: the caller has looked at what it returned and goes
\* on; the locals of the call are gone.
resume ==
    /\ UNCHANGED codec
    /\ pc = "returned"
    /\ pc' = "idle"
    /\ ret' = Unit
    /\ self' = NoOwned
    /\ reqSize' = 0
    /\ before' = <<>>
    /\ UNCHANGED heapvars
    /\ UNCHANGED <<owned, bin, md, newb>>

(***************************************************************************)
(* The codec that #[derive(NifMap)] generates (rustler_codegen map.rs)     *)
(***************************************************************************)
\* The record types the derive is applied to: their named fields in
\* declaration order, each with the type whose Decoder decodes it.
Structs == {"AB", "P", "Q", "R"}

struct_fields(T) ==
    CASE T = "AB" -> <<[name |-> "a", ty |-> "int"], [name |-> "b", ty |-> "str"]>>
      [] T = "P" -> <<[name |-> "value", ty |-> "int"]>>
      [] T = "Q" -> <<[name |-> "value", ty |-> "int"]>>
      [] T = "R" -> <<[name |-> "value", ty |-> "str"]>>

\* Atoms that occur as keys of maps.
Keys == {"a", "b", "c", "value"}

\* Terms that occur as values: two integers, two strings, or no entry.
Absent == [ty |-> "absent", v |-> 0]
ValueTerms == {[ty |-> t, v |-> v] : t \in {"int", "str"}, v \in {0, 1}}

\* Incoming terms: every map over Keys, and a term that is no map.
MapTerm(m) == [kind |-> "map", m |-> m]
NotAMap == [kind |-> "other", m |-> [k \in Keys |-> Absent]]
Terms == {MapTerm(m) : m \in [Keys -> ValueTerms \cup {Absent}]} \cup {NotAMap}

NoError == [kind |-> "none", msg |-> <<>>]
BadArg == [kind |-> "BadArg", msg |-> <<>>]
RaiseTerm(msg) == [kind |-> "RaiseTerm", msg |-> msg]

\* Context::field_to_atom_fun: the atom named after the field.
field_to_atom_fun(field) == field.name

\* Term::map_get(key): the value under key, or Err(BadArg) when the term is
\* no map or has no such key.
map_get(term, key) ==
    IF term.kind = "map" /\ term.m[key] # Absent
    THEN [ok |-> TRUE, err |-> NoError, value |-> term.m[key]]
    ELSE [ok |-> FALSE, err |-> BadArg, value |-> Absent]

\* Decoder::decode of a field's type: an i64 decodes integers, a String
\* decodes strings.
Decoder_decode(ty, value) ==
    IF value.ty = ty
    THEN [ok |-> TRUE, err |-> NoError, v |-> value.v]
    ELSE [ok |-> FALSE, err |-> BadArg, v |-> 0]

\* format!("Could not decode field :{} on %{{}}", ident)
error_message(ident) == <<"Could not decode field :", ident, " on %{}">>

\* A record value: field name -> value; NoRecord when there is none.
NoRecord == [k \in {} |-> 0]

\* Ok(Struct { f1: match decode(term.map_get(atom_f1())?) {..}, f2: .. }):
\* the field initialisers run in declaration order, from field i on, with
\* the fields built so far in acc.  The `?` returns an Err of map_get as
\* it is; an Err of the field's decoder becomes the per-field RaiseTerm.
RECURSIVE decode_fields(_, _, _, _)
decode_fields(T, term, i, acc) ==
    IF i > Len(struct_fields(T))
    THEN [ok |-> TRUE, err |-> NoError, value |-> acc, examined |-> i - 1]
    ELSE LET field == struct_fields(T)[i]
             got == map_get(term, field_to_atom_fun(field))
         IN  IF ~got.ok
             THEN [ok |-> FALSE, err |-> got.err, value |-> NoRecord,
                   examined |-> i]
             ELSE LET dec == Decoder_decode(field.ty, got.value)
                  IN  IF ~dec.ok
                      THEN [ok |-> FALSE,
                            err |-> RaiseTerm(error_message(field.name)),
                            value |-> NoRecord, examined |-> i]
                      ELSE decode_fields(T, term, i + 1,
                                         [k \in (DOMAIN acc) \cup {field.name} |->
                                            IF k = field.name THEN dec.v ELSE acc[k]])

\* impl Decoder for T { fn decode(term) }
gen_decoder(T, term) == decode_fields(T, term, 1, NoRecord)

\* The values of the record type T: a value for every field.
FieldNames(T) == {struct_fields(T)[i].name : i \in 1..Len(struct_fields(T))}
Records(T) == [FieldNames(T) -> {0, 1}]

\* Encoder::encode of a field's type: the term that carries the value.
Encoder_encode(ty, v) == [ty |-> ty, v |-> v]

\* map_new(env): the empty map.
map_new == MapTerm([k \in Keys |-> Absent])

\* Term::map_put(key, value): the map with key bound to value; Err when
\* the term is no map.
map_put(map, key, value) ==
    IF map.kind = "map"
    THEN [ok |-> TRUE, map |-> MapTerm([map.m EXCEPT ![key] = value])]
    ELSE [ok |-> FALSE, map |-> map]

\* An encoder that leaves the field out of the map.
encode_field_skipped(map, field, rec) == map

\* map = map.map_put(atom_f().encode(env), self.f.encode(env)).unwrap();
\* map is always a map here, so the unwrap does not panic.
encode_field(map, field, rec) ==
    map_put(map, field_to_atom_fun(field),
            Encoder_encode(field.ty, rec[field.name])).map

\* let mut map = map_new(env); one map_put per field in declaration
\* order; map
RECURSIVE encode_fields(_, _, _, _)
encode_fields(T, rec, i, map) ==
    IF i > Len(struct_fields(T))
    THEN map
    ELSE encode_fields(T, rec, i + 1, encode_field(map, struct_fields(T)[i], rec))

\* impl Encoder for T { fn encode(&self, env) }
gen_encoder(T, rec) == encode_fields(T, rec, 1, map_new)

NoCall == [op |-> "none"]

\* A call of the generated encoder of T on the record rec.
encode(T, rec) ==
    /\ codec' = [op |-> "encode", struct |-> T, rec |-> rec,
                 res |-> gen_encoder(T, rec)]
    /\ UNCHANGED binvars

\* A call of the generated decoder of T on term.
decode(T, term) ==
    /\ codec' = [op |-> "decode", struct |-> T, term |-> term,
                 res |-> gen_decoder(T, term)]
    /\ UNCHANGED binvars

(***************************************************************************)
(* The specification of the binary wrappers                                *)
(***************************************************************************)
Init ==
    /\ mem = [a \in AllocIds |-> IF a = RtBin THEN InputBinary ELSE <<>>]
    /\ allocState = [a \in AllocIds |-> IF a = RtBin THEN "runtime" ELSE "unalloc"]
    /\ relCount = [a \in AllocIds |-> 0]
    /\ xferCount = [a \in AllocIds |-> 0]
    /\ sent = [a \in AllocIds |-> <<>>]
    /\ nextAlloc = 1
    /\ owned = EmptyBag
    /\ bin = NoBinary
    /\ pc = "idle"
    /\ self = NoOwned
    /\ reqSize = 0
    /\ before = <<>>
    /\ md = NoLocal
    /\ newb = NoLocal
    /\ ret = Unit
    /\ codec = NoCall

Next ==
    \/ \E size \in Sizes : new(size)
    \/ to_owned
    \/ \E d \in Live, size \in Sizes : realloc(d, size)
    \/ \E d \in Live, i \in 1..MaxSize, v \in Bytes : as_mut_slice(d, i, v)
    \/ \E d \in Live : drop(d)
    \/ \E d \in Live, size \in Sizes : realloc_or_copy(d, size)
    \/ roc_drop
    \/ \E d \in Live : from_owned(d)
    \/ fo_make
    \/ \E t \in TermsInScope : from_term(t)
    \/ \E t \in TermsInScope : from_iolist(t)
    \/ \E offset \in ArgValues, length \in ArgValues :
            make_subbinary(offset, length)
    \/ forget
    \/ resume

vars == <<binvars, codec>>

Spec == Init /\ [][Next]_vars

(***************************************************************************)
(* The specification of the generated codec                                *)
(***************************************************************************)
NextCodec ==
    \/ \E T \in Structs, term \in Terms : decode(T, term)
    \/ \E T \in Structs : \E rec \in Records(T) : encode(T, rec)

SpecCodec == Init /\ [][NextCodec]_vars

(***************************************************************************)
(* Properties of ownership                                                 *)
(***************************************************************************)
One(p) == IF p THEN 1 ELSE 0

\* Number of OwnedBinary values of the caller that hold allocation a.
HeldBy(a) ==
    BagCardinality([d \in {e \in Live : e.data = a} |-> CopiesIn(d, owned)])

\* Number of values whose destructor would release allocation a.
ArmedOwners(a) ==
    HeldBy(a)
    + One(newb.data = a /\ newb.armed)
    + One(md.data = a /\ md.armed)

\* Number of OwnedBinary values that hold allocation a and have not handed
\* it to the runtime.
Holders(a) ==
    HeldBy(a)
    + One(newb.data = a)
    + One(md.data = a /\ xferCount[a] = 0)

\* C1: from the moment from_owned is about to call enif_make_binary, the
\* destructor of the transferred value is disabled and no other value would
\* release the allocation; an allocation handed to the runtime is never
\* released by native code and no armed destructor refers to it.
TransferDisablesDestructor ==
    /\ pc = "fo_make" => (~md.armed /\ ArmedOwners(md.data) = 0)
    /\ \A a \in NativeIds :
          xferCount[a] > 0 => (ArmedOwners(a) = 0 /\ relCount[a] = 0)

\* A transfer has completed: from_owned has returned the Binary of an
\* allocation that native code had obtained.
TransferCompleted ==
    /\ pc = "idle"
    /\ bin.data \in NativeIds
    /\ xferCount[bin.data] = 1
    /\ allocState[bin.data] = "runtime"

\* C2: every allocation obtained from the allocator is, at every moment,
\* either held by exactly one OwnedBinary, or released exactly once and
\* never transferred, or transferred exactly once and never released.
ReleasedExactlyOnce ==
    \A a \in NativeIds :
        /\ relCount[a] <= 1
        /\ xferCount[a] <= 1
        /\ allocState[a] = "unalloc"
              => (Holders(a) = 0 /\ relCount[a] = 0 /\ xferCount[a] = 0)
        /\ allocState[a] # "unalloc"
              => Holders(a) + relCount[a] + xferCount[a] = 1
        /\ relCount[a] = 1 <=> allocState[a] = "freed"
        /\ xferCount[a] = 1 <=> allocState[a] = "runtime"

\* One allocation has been released by a destructor and another one has
\* been transferred.
ReleasedAndTransferred ==
    \E a \in NativeIds, a2 \in NativeIds :
        relCount[a] = 1 /\ xferCount[a2] = 1

\* C3: no two live OwnedBinary values refer to the same allocation, every
\* live OwnedBinary refers to an allocation that native code still owns,
\* and during and after a transfer no OwnedBinary holds the transferred
\* allocation.
Exclusivity ==
    /\ \A a \in AllocIds : ArmedOwners(a) <= 1
    /\ \A d \in Live : allocState[d.data] = "native"
    /\ newb # NoLocal => allocState[newb.data] = "native"
    /\ pc = "fo_make" => \A d \in Live : d.data # md.data
    /\ \A d \in Live : d.data # bin.data

\* Two OwnedBinary values are alive inside realloc_or_copy, after the swap.
TwoLiveOwned ==
    /\ pc = "roc_drop"
    /\ newb # NoLocal
    /\ BagIn(self, owned)
    /\ newb.data # self.data

(***************************************************************************)
(* Properties of resizing                                                  *)
(***************************************************************************)
\* In the next state the caller holds the OwnedBinary d, of length size,
\* and its first min(Len(B), size) bytes are those of B.
Resized(d, size, B) ==
    LET n == Min(Len(B), size)
    IN  /\ d.size = size
        /\ BagIn(d, owned')
        /\ Len(mem'[d.data]) = size
        /\ SubSeq(mem'[d.data], 1, n) = SubSeq(B, 1, n)

\* C6: when realloc_or_copy(new_size) returns, in place or through the
\* copy, the buffer has length new_size and its first min(N, new_size)
\* bytes are those it held before the call.
ResizeFidelity ==
    [][/\ (pc = "idle" /\ ret'.op = "realloc_or_copy" /\ ret'.path = "inplace")
            => \A d \in Live, size \in Sizes :
                  (BagIn([d EXCEPT !.size = size], owned')
                      /\ realloc_or_copy(d, size))
                     => Resized([d EXCEPT !.size = size], size, as_slice(d))
       /\ (pc = "roc_drop" /\ ret'.path = "copy")
            => Resized([data |-> self.data, size |-> self.size], reqSize,
                       before)]_vars

\* realloc_or_copy has returned through the copy, has kept a non-empty
\* prefix and has changed the length.
ResizedByCopy ==
    /\ pc = "returned"
    /\ ret.op = "realloc_or_copy"
    /\ ret.path = "copy"
    /\ reqSize >= 1
    /\ Len(before) >= 1
    /\ Len(before) # reqSize
    /\ BagIn(self, owned)
    /\ self.size = reqSize
    /\ SubSeq(as_slice(self), 1, Min(Len(before), reqSize))
          = SubSeq(before, 1, Min(Len(before), reqSize))

\* C7: a realloc that returns false leaves the descriptor of the
\* OwnedBinary, its bytes, and the state of its allocation as they were.
ReallocFailureIntact ==
    [][(pc = "idle" /\ ret'.op = "realloc" /\ ~ret'.ok)
          => \A d \in Live :
                (\E size \in Sizes : realloc(d, size))
                   => /\ owned' = owned
                      /\ BagIn(d, owned')
                      /\ mem' = mem
                      /\ mem'[d.data] = as_slice(d)
                      /\ allocState'[d.data] = "native"
                      /\ relCount' = relCount]_vars

\* A realloc of a non-empty OwnedBinary has returned false.
ReallocFailed ==
    /\ ret.op = "realloc"
    /\ ~ret.ok
    /\ \E d \in Live : d.size >= 1

\* C8: realloc_or_copy panics only at the unwrap of the fallback
\* allocation, after the in-place reallocation has failed; neither
\* "Could not copy binary" panic is ever reached; and when the in-place
\* reallocation succeeds the allocator is not asked for a second buffer.
PanicOnlyOnFallbackAllocation ==
    ret.op = "realloc_or_copy"
        => /\ ret.panic => (ret.path = "unwrap" /\ ~ret.realloc_ok)
           /\ ret.path # "copy_panic"
           /\ ret.path \in {"copy"} => (~ret.panic /\ ret.asked = 1)
           /\ ret.realloc_ok => (ret.asked = 0 /\ ~ret.panic
                                   /\ ret.path = "inplace")

\* The fallback allocation has failed and realloc_or_copy has panicked.
FallbackAllocationFailed ==
    /\ ret.op = "realloc_or_copy"
    /\ ret.panic
    /\ ret.path = "unwrap"

(***************************************************************************)
(* Round trip                                                              *)
(***************************************************************************)
\* The Binary variable is the whole of an allocation that from_owned
\* transferred.
IsTransferred(b) ==
    /\ b.data \in NativeIds
    /\ xferCount[b.data] = 1
    /\ b.off = 0
    /\ b.size = Len(sent[b.data])
    /\ b.term = BinTerm(b.data, 0, b.size)

\* C9: to_owned on the Binary that from_owned made of a buffer holding B
\* yields, when the allocation succeeds, an OwnedBinary of length len(B)
\* with the bytes B, over another allocation.
RoundTrip ==
    [][(ret'.op = "to_owned" /\ ret'.ok /\ IsTransferred(bin))
          => (to_owned
                => \E d \in BagToSet(owned') :
                      /\ owned' = owned (+) Holding(d)
                      /\ d.size = Len(sent[bin.data])
                      /\ as_slice(d)' = sent[bin.data]
                      /\ d.data # bin.data
                      /\ allocState'[d.data] = "native")]_vars

\* to_owned has copied back a transferred buffer of the largest length.
RoundTripDone ==
    /\ ret.op = "to_owned"
    /\ ret.ok
    /\ IsTransferred(bin)
    /\ bin.size = MaxSize
    /\ \E d \in Live : d.data # bin.data /\ as_slice(d) = sent[bin.data]

(***************************************************************************)
(* Properties of Binary::make_subbinary                                    *)
(***************************************************************************)
\* make_subbinary has returned Error::BadArg without calling
\* enif_make_sub_binary and without producing a Binary.
Rejected ==
    /\ ~ret'.ok
    /\ ret'.err = "BadArg"
    /\ ~ret'.called
    /\ ~ret'.panic
    /\ bin' = bin

\* C5: on a Binary of length N, make_subbinary(offset, length) returns
\* Error::BadArg whenever offset + length exceeds N (which includes every
\* sum that does not fit a usize), and then it neither calls
\* enif_make_sub_binary nor produces a Binary.  (A step that does reject
\* satisfies this whatever its arguments were; a step that does not is
\* compared with every call whose arguments exceed N.)
SubbinaryRejection ==
    [][(pc = "idle" /\ ret'.op = "make_subbinary" /\ ~Rejected)
          => \A offset \in ArgValues, length \in ArgValues :
                offset + length > bin.size => ~make_subbinary(offset, length)]_vars

\* make_subbinary was called with length = usize::MAX and a non-zero offset,
\* so that the addition overflowed, and returned BadArg.
SubbinaryRejectionSeen ==
    /\ ret.op = "make_subbinary"
    /\ ret.at = "overflow"
    /\ ret.err = "BadArg"
    /\ ~ret.called

\* C4: on a Binary of length N with bytes B, however it was made, every
\* make_subbinary(offset, length) with offset + length <= N returns Ok with
\* a Binary of that length whose bytes are B[offset .. offset + length].
SubbinaryContainment ==
    [][(pc = "idle" /\ ret'.op = "make_subbinary")
          => \A offset \in Sizes, length \in Sizes :
                (offset + length <= bin.size /\ make_subbinary(offset, length))
                   => /\ ret'.ok
                      /\ bin'.size = length
                      /\ BinBytes(bin)' =
                            SubSeq(BinBytes(bin), offset + 1, offset + length)]_vars

\* The step granted the allocation `nextAlloc` to native code: the
\* allocator satisfied a request.
Granted ==
    /\ nextAlloc' = nextAlloc + 1
    /\ allocState[nextAlloc] = "unalloc"
    /\ allocState'[nextAlloc] = "native"

\* The step left the allocator, the memory and the values held as they were.
NothingAllocated ==
    /\ nextAlloc' = nextAlloc
    /\ allocState' = allocState
    /\ mem' = mem
    /\ owned' = owned

\* The step added one OwnedBinary of `size` bytes, `bytes` if given, over
\* the granted allocation, and nothing else.
Constructed(size, bytes, copied) ==
    LET d == [data |-> nextAlloc, size |-> size]
    IN  /\ owned' = owned (+) Holding(d)
        /\ Len(mem'[d.data]) = size
        /\ copied => mem'[d.data] = bytes
        /\ \A a \in AllocIds \ {d.data} : mem'[a] = mem[a]

\* C14: new, from_unowned and to_owned return None exactly when the
\* allocator fails, and then have asked it once and own nothing new;
\* otherwise they return a buffer of the requested length, with the
\* source's bytes for the copying constructors.
ConstructorsReportAllocation ==
    [][/\ (pc = "idle" /\ ret'.op = "new")
            => \A size \in Sizes :
                  new(size)
                     => /\ ret'.asked = 1
                        /\ ret'.ok = Granted
                        /\ ret'.ok => Constructed(size, <<>>, FALSE)
                        /\ ~ret'.ok => NothingAllocated
                        /\ relCount' = relCount
       /\ (pc = "idle" /\ ret'.op = "to_owned")
            => /\ to_owned
               /\ ret'.asked = 1
               /\ ret'.ok = Granted
               /\ ret'.ok => Constructed(bin.size, BinBytes(bin), TRUE)
               /\ ~ret'.ok => NothingAllocated
               /\ relCount' = relCount]_vars

\* The allocator has refused a copy of a non-empty Binary although it
\* had allocations left; to_owned returned None.
AllocationRefused ==
    /\ ret.op = "to_owned"
    /\ ~ret.ok
    /\ ret.asked = 1
    /\ bin.size >= 1
    /\ nextAlloc <= MaxAllocs
    /\ owned = EmptyBag

\* The bytes a binary term denotes.
TermBytes(t) == RawParts(t.data, t.off, t.size)

\* C13: from_term (also through Decoder::decode and Term::into_binary)
\* returns Ok exactly for binary terms, with the term's bytes, and
\* Err(BadArg) for every other term, a list of bytes included; from_iolist
\* returns Ok exactly for binaries and lists of bytes, with the flattened
\* bytes, and Err(BadArg) otherwise.
InspectionResults ==
    [][/\ (pc = "idle" /\ ret'.op = "from_term")
            => \A t \in TermsInScope :
                  from_term(t)
                     => /\ ret'.ok = (t.kind = "bin")
                        /\ ~ret'.ok => (ret'.err = "BadArg" /\ bin' = bin)
                        /\ ret'.ok => /\ bin'.term = t
                                      /\ bin'.size = t.size
                                      /\ BinBytes(bin)' = TermBytes(t)
       /\ (pc = "idle" /\ ret'.op = "from_iolist")
            => \A t \in TermsInScope :
                  from_iolist(t)
                     => /\ ret'.ok = (t.kind \in {"bin", "list"})
                        /\ ~ret'.ok => (ret'.err = "BadArg" /\ bin' = bin)
                        /\ ret'.ok =>
                              BinBytes(bin)' = IF t.kind = "bin" THEN TermBytes(t)
                                                                ELSE iolist]_vars

\* from_iolist has accepted the list of bytes and the Binary reads the
\* flattened bytes.
IolistAccepted ==
    /\ ret.op = "from_iolist"
    /\ ret.ok
    /\ bin.term = ListTerm
    /\ bin.size = Len(iolist)
    /\ BinBytes(bin) = iolist

\* C16: the term handle of every Binary denotes a binary term with the
\* bytes of its descriptor, so from_term of it gives the same bytes, and
\* the re-inspection inside make_subbinary never fails.
TermDescriptorConsistent ==
    /\ bin # NoBinary
          => /\ bin.term.kind = "bin"
             /\ TermBytes(bin.term) = BinBytes(bin)
             /\ Binary_from_term(bin.term).ok
             /\ BinBytes(Binary_from_term(bin.term).bin) = BinBytes(bin)
    /\ ret.op = "make_subbinary" => ~ret.panic

\* C17: while a Binary exists, no step changes the bytes read through it or
\* releases the memory it aliases, whatever is done to OwnedBinary values
\* (copies of it made by to_owned included) or to other views of the same
\* memory; and no operation on a Binary calls enif_release_binary.
ImmutableView ==
    [][/\ (bin # NoBinary /\ bin'.data = bin.data)
            => /\ Read(mem'[bin.data], bin.off, bin.size) = BinBytes(bin)
               /\ allocState'[bin.data] = allocState[bin.data]
               /\ allocState'[bin.data] = "runtime"
               /\ relCount'[bin.data] = relCount[bin.data]
       /\ (\/ ret'.op \in {"to_owned", "make_subbinary", "from_term", "from_iolist"}
           \/ (bin # NoBinary /\ bin' = NoBinary))
            => relCount' = relCount]_vars

\* The Binary over the NIF's argument still reads the argument's bytes
\* after one copy of it was changed and another copy was dropped.
ViewOutlivesCopies ==
    /\ bin.term = InputBinTerm
    /\ BinBytes(bin) = InputBinary
    /\ \E a \in NativeIds : relCount[a] = 1
    /\ \E d \in Live : d.size = bin.size /\ as_slice(d) # BinBytes(bin)

(***************************************************************************)
(* Properties of the generated decoder                                     *)
(***************************************************************************)
\* Field number i of T cannot be read from the map: its key is absent, or
\* the value under the key is not of the field's type.
FieldFails(T, term, i) ==
    LET field == struct_fields(T)[i]
    IN  \/ term.m[field.name] = Absent
        \/ term.m[field.name].ty # field.ty

\* Field i is the first field of T that cannot be read.
FirstFailing(T, term, i) ==
    /\ FieldFails(T, term, i)
    /\ \A j \in 1..(i - 1) : ~FieldFails(T, term, j)

\* C10: when a field's key is absent from the map, or its value does not
\* decode as the field's type, the decoder fails with the per-field error
\* that names that field.
FieldDecodeFailureNamesField ==
    (codec.op = "decode" /\ codec.term.kind = "map")
        => \A i \in 1..Len(struct_fields(codec.struct)) :
              FirstFailing(codec.struct, codec.term, i)
                 => /\ ~codec.res.ok
                    /\ codec.res.err =
                          RaiseTerm(error_message(struct_fields(codec.struct)[i].name))

\* C11: a map term produced by the generated encoder of a record type,
\* decoded by the generated decoder of the same type, gives Ok with a record
\* equal to the encoded one in every field.
CodecRoundTrip ==
    [][(/\ codec.op = "encode"
        /\ codec'.op = "decode"
        /\ codec'.struct = codec.struct
        /\ codec'.term = codec.res)
          => /\ codec'.res.ok
             /\ DOMAIN codec'.res.value = FieldNames(codec.struct)
             /\ \A f \in FieldNames(codec.struct) :
                   codec'.res.value[f] = codec.rec[f]]_vars

\* A record of two fields with different values has been encoded and the
\* map decoded again.
CodecRoundTripDone ==
    /\ codec.op = "decode"
    /\ codec.struct = "AB"
    /\ codec.res.ok
    /\ codec.res.value = [k \in {"a", "b"} |-> IF k = "a" THEN 1 ELSE 0]
    /\ codec.term = gen_encoder("AB", codec.res.value)
    /\ codec.term.m["c"] = Absent

\* The record type T has a field named `value`.
HasValueField(T) == "value" \in FieldNames(T)

\* C12: for two distinct record types that each have a field named
\* `value`, a map encoded from a record of one type is not a map the
\* encoder of the other type produces, and the decoder of the other type
\* does not accept it.
AtomTableIsolation ==
    [][(/\ codec.op = "encode"
        /\ codec'.op = "decode"
        /\ codec'.term = codec.res
        /\ codec'.struct # codec.struct
        /\ HasValueField(codec.struct)
        /\ HasValueField(codec'.struct))
          => /\ ~codec'.res.ok
             /\ \A rec \in Records(codec'.struct) :
                   gen_encoder(codec'.struct, rec) # codec.res]_vars

\* C15: the decoder returns a record exactly when every field can be read,
\* and then a record with every field; at the first field in declaration
\* order that cannot be read it returns an error that reports that field,
\* having examined no later field, and no record.
DecodeInDeclarationOrder ==
    codec.op = "decode"
        => LET T == codec.struct
               n == Len(struct_fields(T))
           IN  /\ codec.res.ok = (\A i \in 1..n : ~FieldFails(T, codec.term, i))
               /\ codec.res.ok => DOMAIN codec.res.value = FieldNames(T)
               /\ ~codec.res.ok => codec.res.value = NoRecord
               /\ \A i \in 1..n :
                     FirstFailing(T, codec.term, i)
                        => /\ ~codec.res.ok
                           /\ codec.res.examined = i
                           /\ codec.res.err =
                                 RaiseTerm(error_message(struct_fields(T)[i].name))

====
